---- MODULE Spec2Model ----
(***************************************************************************)
(* Model of test_preview.py: create_test_directory() resolves the output   *)
(* directory test_preview_files, creates it with os.makedirs(exist_ok),    *)
(* then writes ten files in a fixed order, each with                       *)
(*     with open(path, "w", encoding="utf-8") as f: f.write(...)           *)
(* followed by a print of a "Created" line, and finally prints a summary   *)
(* block and returns the directory path.                                   *)
(*                                                                         *)
(* The file system is modelled at the level open() works on: a directory   *)
(* entry names an inode (or a sub-directory, or nothing), and open(.., "w")*)
(* truncates the inode an existing entry names, or creates a fresh inode   *)
(* for a missing entry.  Two entries may name the same inode (links).      *)
(* File contents are sequences of characters; a run of characters without  *)
(* a newline is abstracted to one token, newlines are kept ("LF", "CR").   *)
(***************************************************************************)
EXTENDS Integers, Sequences, FiniteSets, TLC

\* Number of times the script is started one after the other.
MaxRuns == 2
\* Largest number of the ten names that already have an entry before run 1.
MaxPre == 2

----------------------------------------------------------------------------
(* The fixed data of the script *)

\* Fault variant of Order: the last section reuses the path of the ninth.
OrderCsvTwice ==
  << "sample.txt", "sample.json", "sample.py", "Sample.cs", "sample.html",
     "sample.css", "README.md", "sample.xml", "sample.csv", "sample.csv" >>

\* The ten files, in the order the script writes them.
Order ==
  << "sample.txt", "sample.json", "sample.py", "Sample.cs", "sample.html",
     "sample.css", "README.md", "sample.xml", "sample.csv", "sample.sql" >>

\* The ten file names the script uses.
Names ==
  { "sample.txt", "sample.json", "sample.py", "Sample.cs", "sample.html",
    "sample.css", "README.md", "sample.xml", "sample.csv", "sample.sql" }

\* The strings passed to the successive f.write calls for one file.
\* sample.txt gets four calls of one line each; sample.json one call whose
\* literal does not end in a newline; each other file one call whose literal
\* ends in a newline.
Chunks(n) ==
  IF n = "sample.txt"
    THEN << <<"txt1", "LF">>, <<"txt2", "LF">>, <<"txt3", "LF">>, <<"txt4", "LF">> >>
    ELSE IF n = "sample.json"
      THEN << <<"{", "LF", "}">> >>
      ELSE << <<n, "LF">> >>

RECURSIVE Concat(_)
Concat(ss) == IF ss = <<>> THEN <<>> ELSE Head(ss) \o Concat(Tail(ss))

\* The whole text the script writes to file n.
Literal(n) == Concat(Chunks(n))

\* Console lines, one per print call.
Line(k, a) == [kind |-> k, arg |-> a]
HeaderLines == << Line("creating", "test_dir"), Line("sep", "") >>
CreatedLine(n) == Line("created", n)
SummaryLines ==
  << Line("sep", ""), Line("success", ""), Line("totest", ""),
     Line("step1", ""), Line("step2", ""), Line("step3", "test_dir"),
     Line("step4", "") >>

----------------------------------------------------------------------------
(* The file system *)

\* A file of the output directory that the script does not name, and the
\* inode of a file outside the output directory.
Extra == "notes.txt"
DirNames == Names \cup {Extra}
InoOutside == "ino_outside"
InoExtra == "ino_extra"
\* The inode created for (or owned by) name n is called n.
Inodes == Names \cup {InoOutside, InoExtra}

OldContent == <<"old", "LF">>

\* Text-mode write: "\n" is translated to os.linesep.
RECURSIVE Encode(_, _)
Encode(s, sep) ==
  IF s = <<>> THEN <<>>
  ELSE (IF Head(s) = "LF" /\ sep = "CRLF" THEN <<"CR", "LF">> ELSE <<Head(s)>>)
       \o Encode(Tail(s), sep)

\* Text-mode read (universal newlines): "\r\n" and "\r" become "\n".
RECURSIVE Decode(_)
Decode(b) ==
  IF b = <<>> THEN <<>>
  ELSE IF Head(b) = "CR"
    THEN <<"LF">> \o Decode(IF Len(b) > 1 /\ b[2] = "LF" THEN Tail(Tail(b)) ELSE Tail(b))
    ELSE <<Head(b)>> \o Decode(Tail(b))

IsFile(e) == e \notin {"absent", "dir"}

VARIABLES
  pc,             \* position in create_test_directory
  run,            \* how many times the script has been started
  idx,            \* number of files whose section (write + print) is finished
  cur,            \* the file of the current with-block, "" outside one
  wr,             \* number of f.write calls made in the current with-block
  buf,            \* text buffered in the open file object
  openFiles,      \* names whose file object is open
  opens,          \* per name, number of open() calls of this run
  completed,      \* names written and closed without error in this run
  console,        \* lines printed by this run
  returned,       \* value returned by create_test_directory ("None" if none)
  raised,         \* exception that left create_test_directory ("" if none)
  dirState,       \* test_preview_files: "absent", "dir" or "file"
  parentWritable, \* may entries be created next to the script
  dirWritable,    \* may entries be created in test_preview_files
  entries,        \* entry of each name in test_preview_files
  store,          \* bytes of each inode
  ro,             \* inodes that may not be opened for writing
  noSpace,        \* the device accepts no data (ENOSPC / EFBIG)
  linesep,        \* os.linesep of the platform
  dirState0,      \* dirState when this run started
  entries0,       \* entries when this run started
  store0,         \* store when this run started
  prevOK,         \* the previous run returned normally
  outOfOrder      \* some file was written out of its place in the fixed order

vars ==
  << pc, run, idx, cur, wr, buf, openFiles, opens, completed, console,
     returned, raised, dirState, parentWritable, dirWritable, entries, store,
     ro, noSpace, linesep, dirState0, entries0, store0, prevOK, outOfOrder >>

procVars == << idx, cur, wr, buf, openFiles, opens, completed, console, returned, raised >>
envVars == << parentWritable, dirWritable, ro, noSpace, linesep >>
histVars == << dirState0, entries0, store0, prevOK, run, outOfOrder >>

\* What a pre-existing entry of one of the ten names can be.
Kinds == {"dir", "own", "own_ro", "link_outside", "link_extra"}

KindEntry(n, k) ==
  CASE k = "dir" -> "dir"
    [] k = "own" -> n
    [] k = "own_ro" -> n
    [] k = "link_outside" -> InoOutside
    [] k = "link_extra" -> InoExtra

\* State of the process when create_test_directory is entered.
ProcInit ==
  /\ idx = 0
  /\ cur = ""
  /\ wr = 0
  /\ buf = <<>>
  /\ openFiles = {}
  /\ opens = [n \in Names |-> 0]
  /\ completed = {}
  /\ console = <<>>
  /\ returned = "None"
  /\ raised = ""

InitWith(kinds) ==
  /\ pc = "makedirs"
  /\ run = 1
  /\ ProcInit
  /\ dirState \in {"absent", "dir", "file"}
  /\ parentWritable \in (IF dirState = "absent" THEN BOOLEAN ELSE {TRUE})
  /\ dirWritable \in (IF dirState = "dir" THEN BOOLEAN ELSE {FALSE})
  /\ noSpace \in BOOLEAN
  /\ linesep \in {"LF", "CRLF"}
  /\ \E P \in SUBSET Names :
       /\ Cardinality(P) <= MaxPre
       /\ dirState # "dir" => P = {}
       /\ \E k \in [P -> kinds] :
            /\ entries = [n \in DirNames |->
                            IF dirState # "dir" THEN "absent"
                            ELSE IF n = Extra THEN InoExtra
                            ELSE IF n \in P THEN KindEntry(n, k[n])
                            ELSE "absent"]
            /\ ro = {n \in P : k[n] = "own_ro"}
  /\ store = [i \in Inodes |->
                IF i = InoOutside \/ (\E n \in DirNames : entries[n] = i)
                  THEN OldContent ELSE <<>>]
  /\ dirState0 = dirState
  /\ entries0 = entries
  /\ store0 = store
  /\ prevOK = FALSE
  /\ outOfOrder = FALSE

Init == InitWith(Kinds)

----------------------------------------------------------------------------
(* The steps of create_test_directory *)

Raise(e) ==
  /\ pc' = "error"
  /\ raised' = e

\* Fault variant of Makedirs: exist_ok is left out.
MakedirsNoExistOk ==
  /\ pc = "makedirs"
  /\ IF dirState = "absent" /\ parentWritable
       THEN /\ dirState' = "dir"
            /\ dirWritable' = TRUE
            /\ pc' = "header"
            /\ UNCHANGED raised
       ELSE /\ Raise(IF dirState = "absent" THEN "PermissionError" ELSE "FileExistsError")
            /\ UNCHANGED << dirState, dirWritable >>
  /\ UNCHANGED << idx, cur, wr, buf, openFiles, opens, completed, console, returned >>
  /\ UNCHANGED << parentWritable, ro, noSpace, linesep, entries, store >>
  /\ UNCHANGED histVars

\* Fault variant of Makedirs: the error of makedirs is caught and ignored.
MakedirsSwallow ==
  /\ pc = "makedirs"
  /\ IF dirState = "absent" /\ parentWritable
       THEN /\ dirState' = "dir"
            /\ dirWritable' = TRUE
       ELSE UNCHANGED << dirState, dirWritable >>
  /\ pc' = "header"
  /\ UNCHANGED << idx, cur, wr, buf, openFiles, opens, completed, console, returned, raised >>
  /\ UNCHANGED << parentWritable, ro, noSpace, linesep, entries, store >>
  /\ UNCHANGED histVars

\* Fault variant of Makedirs: the path is computed but makedirs is not called.
MakedirsForgotten ==
  /\ pc = "makedirs"
  /\ pc' = "header"
  /\ UNCHANGED << idx, cur, wr, buf, openFiles, opens, completed, console, returned, raised >>
  /\ UNCHANGED << dirState, dirWritable, parentWritable, ro, noSpace, linesep, entries, store >>
  /\ UNCHANGED histVars

\* os.makedirs(test_dir, exist_ok=True)
Makedirs ==
  /\ pc = "makedirs"
  /\ IF dirState = "dir"
       THEN /\ pc' = "header"
            /\ UNCHANGED << dirState, dirWritable, raised >>
       ELSE IF dirState = "file"
         THEN /\ Raise("FileExistsError")
              /\ UNCHANGED << dirState, dirWritable >>
         ELSE IF parentWritable
           THEN /\ dirState' = "dir"
                /\ dirWritable' = TRUE
                /\ pc' = "header"
                /\ UNCHANGED raised
           ELSE /\ Raise("PermissionError")
                /\ UNCHANGED << dirState, dirWritable >>
  /\ UNCHANGED << idx, cur, wr, buf, openFiles, opens, completed, console, returned >>
  /\ UNCHANGED << parentWritable, ro, noSpace, linesep, entries, store >>
  /\ UNCHANGED histVars

\* print("Creating test files in: ..."); print("-" * 50)
Header ==
  /\ pc = "header"
  /\ console' = console \o HeaderLines
  /\ pc' = "open"
  /\ UNCHANGED << idx, cur, wr, buf, openFiles, opens, completed, returned, raised >>
  /\ UNCHANGED << dirState, entries, store >>
  /\ UNCHANGED envVars
  /\ UNCHANGED histVars

\* The exception open(path, "w") raises for name n, "" if it succeeds.
OpenError(ent, n) ==
  IF dirState # "dir" THEN "FileNotFoundError"
  ELSE IF ent[n] = "dir" THEN "IsADirectoryError"
  ELSE IF ent[n] = "absent" THEN (IF dirWritable THEN "" ELSE "PermissionError")
  ELSE IF ent[n] \in ro THEN "PermissionError"
  ELSE ""

\* Fault variant of OpenEntries: the old file is removed and a new one made.
OpenEntriesReplace(ent, n) == [ent EXCEPT ![n] = n]

\* Entries after a successful open(path, "w"): a missing entry is created.
OpenEntries(ent, n) ==
  IF ent[n] = "absent" THEN [ent EXCEPT ![n] = n] ELSE ent

\* Fault variant of OpenStore: mode "a", nothing is truncated.
OpenStoreAppend(ent, st, n) == st

\* Store after a successful open(path, "w"): the inode is truncated.
OpenStore(ent, st, n) ==
  [st EXCEPT ![OpenEntries(ent, n)[n]] = <<>>]

\* Store after the buffered text is flushed to the inode of name n.
FlushStore(ent, st, n, text) ==
  [st EXCEPT ![ent[n]] = @ \o Encode(text, linesep)]

\* Fault variant of OpenFile: a failing open is caught and the file skipped.
OpenFileSkip(n) ==
  /\ pc = "open"
  /\ opens' = [opens EXCEPT ![n] = @ + 1]
  /\ IF OpenError(entries, n) = ""
       THEN /\ entries' = OpenEntries(entries, n)
            /\ store' = OpenStore(entries, store, n)
            /\ openFiles' = openFiles \cup {n}
            /\ cur' = n
            /\ wr' = 0
            /\ buf' = <<>>
            /\ pc' = "write"
            /\ UNCHANGED idx
       ELSE /\ idx' = idx + 1
            /\ pc' = IF idx + 1 = Len(Order) THEN "summary" ELSE "open"
            /\ UNCHANGED << entries, store, openFiles, cur, wr, buf >>
  /\ UNCHANGED << completed, console, returned, raised, dirState >>
  /\ UNCHANGED envVars
  /\ UNCHANGED histVars

\* with open(<path of n>, "w", encoding="utf-8") as f:
OpenFile(n) ==
  /\ pc = "open"
  /\ opens' = [opens EXCEPT ![n] = @ + 1]
  /\ IF OpenError(entries, n) = ""
       THEN /\ entries' = OpenEntries(entries, n)
            /\ store' = OpenStore(entries, store, n)
            /\ openFiles' = openFiles \cup {n}
            /\ cur' = n
            /\ wr' = 0
            /\ buf' = <<>>
            /\ pc' = "write"
            /\ UNCHANGED raised
       ELSE /\ Raise(OpenError(entries, n))
            /\ UNCHANGED << entries, store, openFiles, cur, wr, buf >>
  /\ UNCHANGED << idx, completed, console, returned, dirState >>
  /\ UNCHANGED envVars
  /\ UNCHANGED histVars

\* The script opens the files in the fixed order.
OpenNext == idx < Len(Order) /\ OpenFile(Order[idx + 1])

\* f.write(<next literal>): the text goes to the file object's buffer.
WriteChunk ==
  /\ pc = "write"
  /\ buf' = buf \o Chunks(cur)[wr + 1]
  /\ wr' = wr + 1
  /\ pc' = IF wr + 1 = Len(Chunks(cur)) THEN "close" ELSE "write"
  /\ UNCHANGED << idx, cur, openFiles, opens, completed, console, returned, raised >>
  /\ UNCHANGED << dirState, entries, store >>
  /\ UNCHANGED envVars
  /\ UNCHANGED histVars

\* Fault variant of CloseFile: the file object is flushed but never closed.
CloseFileLeak ==
  /\ pc = "close"
  /\ buf' = <<>>
  /\ IF noSpace /\ buf # <<>>
       THEN /\ Raise("OSError")
            /\ UNCHANGED << store, completed >>
       ELSE /\ store' = FlushStore(entries, store, cur, buf)
            /\ completed' = completed \cup {cur}
            /\ pc' = "print"
            /\ UNCHANGED raised
  /\ UNCHANGED << idx, cur, wr, opens, console, returned, openFiles >>
  /\ UNCHANGED << dirState, entries >>
  /\ UNCHANGED envVars
  /\ UNCHANGED histVars

\* Leaving the with-block: the buffer is flushed and the file closed.
CloseFile ==
  /\ pc = "close"
  /\ openFiles' = openFiles \ {cur}
  /\ buf' = <<>>
  /\ IF noSpace /\ buf # <<>>
       THEN /\ Raise("OSError")
            /\ UNCHANGED << store, completed >>
       ELSE /\ store' = FlushStore(entries, store, cur, buf)
            /\ completed' = completed \cup {cur}
            /\ pc' = "print"
            /\ UNCHANGED raised
  /\ UNCHANGED << idx, cur, wr, opens, console, returned >>
  /\ UNCHANGED << dirState, entries >>
  /\ UNCHANGED envVars
  /\ UNCHANGED histVars

\* print(f"Created: {path}")
PrintCreated ==
  /\ pc = "print"
  /\ console' = Append(console, CreatedLine(cur))
  /\ idx' = idx + 1
  /\ cur' = ""
  /\ pc' = IF idx + 1 = Len(Order) THEN "summary" ELSE "open"
  /\ UNCHANGED << wr, buf, openFiles, opens, completed, returned, raised >>
  /\ UNCHANGED << dirState, entries, store >>
  /\ UNCHANGED envVars
  /\ UNCHANGED histVars

\* Fault variant of Summary: the closing separator line is left out.
SummaryNoSeparator ==
  /\ pc = "summary"
  /\ console' = console \o Tail(SummaryLines)
  /\ returned' = "test_dir"
  /\ pc' = "done"
  /\ UNCHANGED << idx, cur, wr, buf, openFiles, opens, completed, raised >>
  /\ UNCHANGED << dirState, entries, store >>
  /\ UNCHANGED envVars
  /\ UNCHANGED histVars

\* The closing separator, the instructions, and return test_dir.
Summary ==
  /\ pc = "summary"
  /\ console' = console \o SummaryLines
  /\ returned' = "test_dir"
  /\ pc' = "done"
  /\ UNCHANGED << idx, cur, wr, buf, openFiles, opens, completed, raised >>
  /\ UNCHANGED << dirState, entries, store >>
  /\ UNCHANGED envVars
  /\ UNCHANGED histVars

\* The script is started again after the previous process ended.
Rerun ==
  /\ pc \in {"done", "error"}
  /\ run < MaxRuns
  /\ run' = run + 1
  /\ prevOK' = (pc = "done")
  /\ dirState0' = dirState
  /\ entries0' = entries
  /\ store0' = store
  /\ pc' = "makedirs"
  /\ idx' = 0
  /\ cur' = ""
  /\ wr' = 0
  /\ buf' = <<>>
  /\ openFiles' = {}
  /\ opens' = [n \in Names |-> 0]
  /\ completed' = {}
  /\ console' = <<>>
  /\ returned' = "None"
  /\ raised' = ""
  /\ UNCHANGED << dirState, entries, store, outOfOrder >>
  /\ UNCHANGED envVars

Next ==
  \/ Makedirs
  \/ Header
  \/ OpenNext
  \/ WriteChunk
  \/ CloseFile
  \/ PrintCreated
  \/ Summary
  \/ Rerun

Spec == Init /\ [][Next]_vars

----------------------------------------------------------------------------
(* The ten with-blocks as functions on the file system, applied in any order *)

\* The exception one whole with-block for name n ends with, "" if none.
WriteWholeError(ent, n) ==
  IF OpenError(ent, n) # "" THEN OpenError(ent, n)
  ELSE IF noSpace /\ Literal(n) # <<>> THEN "OSError"
  ELSE ""

\* Entries after the with-block for name n (open succeeded).
WriteWholeEntries(ent, n) == OpenEntries(ent, n)

\* Fault variant of WriteWholeStore: the CSV section opens the XML path.
WriteWholeStoreWrongPath(ent, st, n) ==
  IF n = "sample.csv" /\ IsFile(ent["sample.xml"])
    THEN FlushStore(ent, OpenStore(ent, st, "sample.xml"), "sample.xml", Literal(n))
    ELSE FlushStore(OpenEntries(ent, n), OpenStore(ent, st, n), n, Literal(n))

\* Store after the with-block for name n: truncate, then flush the literal.
WriteWholeStore(ent, st, n) ==
  IF noSpace /\ Literal(n) # <<>>
    THEN OpenStore(ent, st, n)
    ELSE FlushStore(OpenEntries(ent, n), OpenStore(ent, st, n), n, Literal(n))

\* The with-blocks of the names of seq, one after the other.
RECURSIVE RunEntries(_, _)
RunEntries(ent, seq) ==
  IF seq = <<>> THEN ent
  ELSE RunEntries(WriteWholeEntries(ent, Head(seq)), Tail(seq))

RECURSIVE RunStore(_, _, _)
RunStore(ent, st, seq) ==
  IF seq = <<>> THEN st
  ELSE RunStore(WriteWholeEntries(ent, Head(seq)),
                WriteWholeStore(ent, st, Head(seq)), Tail(seq))

\* One whole with-block, for any name not yet written.
PermWrite(n) ==
  /\ pc = "open"
  /\ opens[n] = 0
  /\ opens' = [opens EXCEPT ![n] = @ + 1]
  /\ outOfOrder' = (outOfOrder \/ n # Order[idx + 1])
  /\ IF OpenError(entries, n) = ""
       THEN /\ entries' = WriteWholeEntries(entries, n)
            /\ store' = WriteWholeStore(entries, store, n)
       ELSE UNCHANGED << entries, store >>
  /\ IF WriteWholeError(entries, n) = ""
       THEN /\ completed' = completed \cup {n}
            /\ idx' = idx + 1
            /\ pc' = IF idx + 1 = Len(Order) THEN "summary" ELSE "open"
            /\ UNCHANGED raised
       ELSE /\ Raise(WriteWholeError(entries, n))
            /\ UNCHANGED << completed, idx >>
  /\ UNCHANGED << cur, wr, buf, openFiles, console, returned, dirState >>
  /\ UNCHANGED envVars
  /\ UNCHANGED << dirState0, entries0, store0, prevOK, run >>

PermWriteAny == \E n \in Names : PermWrite(n)

\* Pre-existing entries of the permuted runs: plain files and links.
PermKinds == {"own", "link_outside"}

InitPerm == InitWith(PermKinds)

NextPerm ==
  \/ Makedirs
  \/ Header
  \/ PermWriteAny
  \/ Summary

SpecPerm == InitPerm /\ [][NextPerm]_vars

----------------------------------------------------------------------------
(* Vocabulary of the properties *)

\* What a text-mode read of name n returns.
ReadText(n) == Decode(store[entries[n]])

PosOf(n) == CHOOSE i \in 1..Len(Order) : Order[i] = n

\* The name written last among the names that share the file of n.
LastSharing(n) ==
  Order[CHOOSE i \in 1..Len(Order) :
          /\ entries[Order[i]] = entries[n]
          /\ \A j \in 1..Len(Order) : entries[Order[j]] = entries[n] => j <= i]

NoSharedFile == \A a, b \in Names : a # b => entries[a] # entries[b]

CreatedPositions == { i \in 1..Len(console) : console[i].kind = "created" }
NumCreated == Cardinality(CreatedPositions)

RECURSIVE CreatedLines(_)
CreatedLines(seq) ==
  IF seq = <<>> THEN <<>> ELSE <<CreatedLine(Head(seq))>> \o CreatedLines(Tail(seq))

CannotCreateDir ==
  dirState = "file" \/ (dirState = "absent" /\ ~parentWritable)

----------------------------------------------------------------------------
(* C1 *)

\* C1: after a run that returns normally, each of the ten names is the entry
\* of a file directly inside test_preview_files, whatever was there before.
C1_AllTenExist ==
  pc = "done" =>
    /\ dirState = "dir"
    /\ \A n \in Names : IsFile(entries[n])

C1_Witness ==
  /\ pc = "done"
  /\ run = 1
  /\ \E n \in Names : entries0[n] = "absent"
  /\ \E n \in Names : IsFile(entries0[n])

----------------------------------------------------------------------------
(* C2 *)

\* C2 as stated: after a run that returns normally, reading back each of the
\* ten names yields the literal assigned to that name.
C2_ReadBackOwnLiteral ==
  pc = "done" => \A n \in Names : ReadText(n) = Literal(n)

\* C2 amended: after a run that returns normally, reading back each of the
\* ten names yields the literal of the last name, in the fixed order, that
\* refers to the same file: its own literal unless a later name is a link to
\* the same file.  Nothing of the content held before the run remains.
C2_ReadBackLastSharing ==
  pc = "done" =>
    \A n \in Names :
      /\ ReadText(n) = Literal(LastSharing(n))
      /\ (\A m \in Names : PosOf(m) > PosOf(n) => entries[m] # entries[n])
           => ReadText(n) = Literal(n)

C2_Witness ==
  /\ pc = "done"
  /\ run = 1
  /\ linesep = "CRLF"
  /\ \E n \in Names :
       /\ entries0[n] = n
       /\ store0[n] = OldContent
       /\ ReadText(n) = Literal(n)

----------------------------------------------------------------------------
(* C3 *)

\* C3: a run that follows a run that returned normally raises no error, and
\* when it has returned the entries of the output directory and the content
\* of every file are what they were after the first run.
C3_SecondRunSame ==
  (run >= 2 /\ prevOK) =>
    /\ pc # "error"
    /\ raised = ""
    /\ pc = "done" =>
         /\ dirState = dirState0
         /\ entries = entries0
         /\ store = store0

C3_Witness ==
  /\ run = 2
  /\ prevOK
  /\ pc = "done"

----------------------------------------------------------------------------
(* C4 *)

\* C4: if the output directory cannot be created, then once makedirs has run
\* the run is in the error state with an I/O error raised, no file has been
\* opened or created, no "Created" line is printed and nothing is returned.
C4_MakedirsFails ==
  (CannotCreateDir /\ pc # "makedirs") =>
    /\ pc = "error"
    /\ raised \in {"FileExistsError", "PermissionError"}
    /\ \A n \in Names : opens[n] = 0 /\ entries[n] = "absent"
    /\ store = store0
    /\ CreatedPositions = {}
    /\ returned = "None"

C4_Witness ==
  /\ pc = "error"
  /\ dirState = "absent"
  /\ ~parentWritable
  /\ raised = "PermissionError"

----------------------------------------------------------------------------
(* C5 *)

\* The state in which the run failed at the file after the idx finished ones.
C5_FailedState ==
  (pc = "error" /\ ~CannotCreateDir) =>
    /\ raised # ""
    /\ opens[Order[idx + 1]] = 1
    /\ \A j \in (idx + 2)..Len(Order) :
         /\ opens[Order[j]] = 0
         /\ Order[j] \notin completed
    /\ console = HeaderLines \o CreatedLines(SubSeq(Order, 1, idx))
    /\ returned = "None"
    /\ openFiles = {}

\* C5: when writing the k-th file fails the error leaves the function: the
\* k-th file was opened once, no later file is opened or written, the console
\* holds the header and the "Created" lines of files 1..k-1 only, nothing is
\* returned, and the run takes no further step.
C5_FailFast ==
  /\ []C5_FailedState
  /\ [][pc = "error" => (pc' = "makedirs" /\ run' = run + 1)]_vars

C5_Witness ==
  /\ pc = "error"
  /\ raised = "IsADirectoryError"
  /\ idx >= 2

----------------------------------------------------------------------------
(* C6 *)

C6_DirWhileWriting ==
  /\ pc \in {"header", "open", "write", "close", "print", "summary", "done"}
       => dirState = "dir"
  /\ (openFiles # {} \/ completed # {} \/ \E n \in Names : opens[n] > 0)
       => dirState = "dir"

\* C6: makedirs comes before the first open; from the step after makedirs on
\* the directory exists and keeps existing, and the entries and the file
\* contents change only while the directory exists.
C6_DirBeforeWrites ==
  /\ []C6_DirWhileWriting
  /\ [][dirState = "dir" => dirState' = "dir"]_vars
  /\ [][(entries' # entries \/ store' # store) => (dirState = "dir" /\ pc # "makedirs")]_vars

C6_Witness ==
  /\ dirState0 = "absent"
  /\ run = 1
  /\ dirState = "dir"
  /\ completed # {}

----------------------------------------------------------------------------
(* C7 *)

\* C7: when the run has returned, the console holds the header with the
\* opening separator, the ten "Created" lines in the fixed order, then the
\* closing separator and the summary; and at any time a "Created" line is on
\* the console only for a file that was written and closed.
C7_ConsoleOutput ==
  /\ pc = "done" =>
       console = HeaderLines \o CreatedLines(Order) \o SummaryLines
  /\ \A i \in CreatedPositions :
       /\ console[i].arg \in completed
       /\ console[i].arg \notin openFiles
  /\ (\E i \in 1..Len(console) : console[i].kind = "success")
       => NumCreated = Len(Order)

C7_Witness ==
  /\ pc = "done"
  /\ NumCreated = 10
  /\ console[2].kind = "sep"
  /\ console[13].kind = "sep"

----------------------------------------------------------------------------
(* C8 *)

\* C8 as stated: whatever order the ten with-blocks are run in, after a run
\* that returns normally the file system is what the fixed order produces.
C8_AnyOrderSameResult ==
  pc = "done" =>
    /\ entries = RunEntries(entries0, Order)
    /\ store = RunStore(entries0, store0, Order)

\* C8 amended: when no two of the ten names refer to the same file, whatever
\* order the ten with-blocks are run in, after a run that returns normally
\* the file system is what the fixed order produces.
C8_AnyOrderSameResultNoLinks ==
  (pc = "done" /\ NoSharedFile) =>
    /\ entries = RunEntries(entries0, Order)
    /\ store = RunStore(entries0, store0, Order)

C8_Witness ==
  /\ pc = "done"
  /\ outOfOrder
  /\ NoSharedFile
  /\ \E n \in Names : IsFile(entries0[n])

----------------------------------------------------------------------------
(* C9 *)

\* C9: at every point of a run the completed files are a prefix of the fixed
\* order, at most one file is open, a file is opened only after its
\* predecessor is closed, no file is opened twice, and the number of
\* "Created" lines is the number of completed files or one less.
C9_PrefixInvariant ==
  /\ completed = { Order[j] : j \in 1..Cardinality(completed) }
  /\ Cardinality(openFiles) <= 1
  /\ \A n \in Names : opens[n] <= 1
  /\ \A j \in 2..Len(Order) :
       opens[Order[j]] > 0 =>
         /\ Order[j - 1] \in completed
         /\ Order[j - 1] \notin openFiles
  /\ NumCreated <= Cardinality(completed)
  /\ NumCreated >= Cardinality(completed) - 1

C9_Witness ==
  /\ pc = "print"
  /\ Cardinality(completed) = 3
  /\ NumCreated = 2

----------------------------------------------------------------------------
(* C10 *)

\* C10 as stated: the other file of the output directory and the file outside
\* it exist and hold what they held when the run started, and no entry is
\* removed.
C10_OthersUntouched ==
  /\ entries[Extra] = entries0[Extra]
  /\ IsFile(entries[Extra]) => store[entries[Extra]] = store0[entries[Extra]]
  /\ store[InoOutside] = store0[InoOutside]
  /\ \A n \in DirNames : entries0[n] # "absent" => entries[n] = entries0[n]

\* C10 amended: a run changes only the output directory and the files that
\* the ten names it has opened refer to.  A file no opened name refers to
\* keeps its content, the entry of the other name is unchanged, and no entry
\* is removed or redirected; a file under another name changes only when one
\* of the ten names is a link to it.
C10_OnlyOpenedFilesChange ==
  /\ entries[Extra] = entries0[Extra]
  /\ \A i \in Inodes :
       (\A n \in Names : opens[n] = 0 \/ entries[n] # i) => store[i] = store0[i]
  /\ \A n \in DirNames : entries0[n] # "absent" => entries[n] = entries0[n]
  /\ dirState0 # "absent" => dirState = dirState0

C10_Witness ==
  /\ pc = "done"
  /\ run = 1
  /\ entries[Extra] = InoExtra
  /\ store[InoExtra] = OldContent
  /\ store[InoOutside] = OldContent
  /\ \E n \in Names : entries0[n] = n

====
